---- MODULE Spec2Model ----
(***************************************************************************)
(* Veo Studio: the generation orchestrator (App), the prompt form          *)
(* (PromptForm) and the story timeline.  The React state of each mounted   *)
(* component is a variable; every event handler, effect and promise        *)
(* continuation is one action.  State updates made in one synchronous run  *)
(* of a handler are applied together (React batches them), so a handler    *)
(* splits into several actions only at its awaits.                         *)
(***************************************************************************)
EXTENDS Integers, Sequences, FiniteSets, TLC

\* ------------------------------------------------------------------ bounds
\* Generation attempts (handleGenerate invocations) one run may start; all of
\* them may be in flight at the same time.
MaxStarts == 2
\* Attempts one run of the form specification may start.
MaxFormStarts == 1
\* Attempts one run of the submission specification may start.
MaxSubmitStarts == 2
\* Attempts one run of the mode and of the settings specification may start.
MaxModeStarts == 1
MaxSettingsStarts == 1
MaxStaleStarts == 3
MaxPlaybackStarts == 3
MaxDuration == 120
\* Attempts one run of the classification specification may start.
MaxClassifyStarts == 1
\* Credential-selector calls (openSelectKey) that may be pending at once.
MaxSelectors == 1
\* File reads (uploads) of one form that may be pending at once.
MaxUploads == 1
MaxReferenceUploads == 2
\* Fragments of a raw error text in the classification specification.
MaxErrLen == 2
\* Characters of a prompt typed in the form specification.
MaxPromptLen == 2

\* ------------------------------------------------------------- optionals
\* A JavaScript null/undefined is the empty set, a present value v is {v}.
None == {}
Some(v) == {v}
Val(o) == CHOOSE v \in o : TRUE

\* ----------------------------------------------------------------- enums
AppStates == {"IDLE", "LOADING", "SUCCESS", "ERROR"}
Modes == {"TEXT_TO_VIDEO", "FRAMES_TO_VIDEO", "REFERENCES_TO_VIDEO", "EXTEND_VIDEO"}
Models == {"VEO_FAST", "VEO"}
AspectRatios == {"LANDSCAPE", "PORTRAIT"}
Resolutions == {"720p", "1080p", "4k"}
Speakers == {"NONE", "ELENA", "ARUN", "NARRATOR"}

\* ------------------------------------------------------------------ text
\* A string is the sequence of its characters; only blank and non-blank
\* characters are told apart.
Chars == {" ", "a"}

RECURSIVE TrimStart(_)
TrimStart(s) == IF s # <<>> /\ Head(s) = " " THEN TrimStart(Tail(s)) ELSE s

RECURSIVE TrimEnd(_)
TrimEnd(s) ==
  IF s # <<>> /\ s[Len(s)] = " " THEN TrimEnd(SubSeq(s, 1, Len(s) - 1)) ELSE s

\* String.prototype.trim
Trim(s) == TrimEnd(TrimStart(s))

RECURSIVE SeqsUpTo(_, _)
SeqsUpTo(S, n) ==
  IF n = 0 THEN {<<>>}
  ELSE LET shorter == SeqsUpTo(S, n - 1)
       IN  shorter \cup {Append(s, x) : s \in shorter, x \in S}


\* ------------------------------------------------- raw error texts
\* A raw error text is a sequence of fragments.  A searched pattern never
\* spans two fragments, so a text includes a pattern iff one of its
\* fragments is that pattern.
Fragments ==
  { "Requested entity was not found.", "requested entity was not found.",
    "API_KEY_INVALID", "API key not valid", "Permission Denied",
    "permission denied", "403", "boom" }

\* String.prototype.toLowerCase, fragment by fragment
LowerFragment(f) ==
  CASE f = "Requested entity was not found." -> "requested entity was not found."
    [] f = "API_KEY_INVALID" -> "api_key_invalid"
    [] f = "API key not valid" -> "api key not valid"
    [] f = "Permission Denied" -> "permission denied"
    [] OTHER -> f

toLowerCase(text) == [i \in 1..Len(text) |-> LowerFragment(text[i])]

\* String.prototype.includes
includes(text, pattern) == \E i \in 1..Len(text) : text[i] = pattern

\* A rejection value: an Error carrying a message, or anything else.
ErrorValue(msg) == [isError |-> TRUE, message |-> msg]
NonErrorValue == [isError |-> FALSE, message |-> <<>>]

ModelNotFoundMessage ==
  << "Model not found. This can be caused by an invalid API key or permission issues. Please check your API key." >>
KeyInvalidMessage ==
  << "Your API key is invalid or lacks permissions. Please select a valid, billing-enabled API key." >>

\* CatchClassification with the key patterns searched before the
\* not-found pattern.
CatchClassification_KeyFirst(error) ==
  LET errorMessage ==
        IF error.isError THEN error.message ELSE << "An unknown error occurred." >>
  IN  IF \/ includes(errorMessage, "API_KEY_INVALID")
         \/ includes(errorMessage, "API key not valid")
         \/ includes(toLowerCase(errorMessage), "permission denied")
         \/ includes(errorMessage, "403")
      THEN [userFriendlyMessage |-> KeyInvalidMessage, shouldOpenDialog |-> TRUE]
      ELSE IF includes(errorMessage, "Requested entity was not found.")
      THEN [userFriendlyMessage |-> ModelNotFoundMessage, shouldOpenDialog |-> TRUE]
      ELSE [userFriendlyMessage |-> << "Generation failed: " >> \o errorMessage,
            shouldOpenDialog |-> FALSE]

\* The catch block of handleGenerate up to its state updates: the message
\* shown to the user and whether the key dialog is to be opened.
CatchClassification(error) ==
  LET errorMessage ==
        IF error.isError THEN error.message ELSE << "An unknown error occurred." >>
  IN  IF includes(errorMessage, "Requested entity was not found.")
      THEN [userFriendlyMessage |-> ModelNotFoundMessage, shouldOpenDialog |-> TRUE]
      ELSE IF \/ includes(errorMessage, "API_KEY_INVALID")
              \/ includes(errorMessage, "API key not valid")
              \/ includes(toLowerCase(errorMessage), "permission denied")
              \/ includes(errorMessage, "403")
      THEN [userFriendlyMessage |-> KeyInvalidMessage, shouldOpenDialog |-> TRUE]
      ELSE [userFriendlyMessage |-> << "Generation failed: " >> \o errorMessage,
            shouldOpenDialog |-> FALSE]

\* ------------------------------------------------------------- variables
VARIABLES
  aistudio,           \* whether window.aistudio exists (fixed for the run)
  startCheck,         \* the mount effect's checkApiKey: "pending", "done", "skipped"
  appState,           \* App state
  errorMessage,
  timeline,
  currentSegmentId,
  lastConfig,
  lastVideoObject,
  lastVideoBlob,
  showApiKeyDialog,
  initialFormValues,
  attempts,           \* handleGenerate invocations that have not returned
  nextAttempt,        \* number the next invocation gets
  selectors,          \* handleApiKeyDialogContinue calls awaiting openSelectKey
  now,                \* the last reading of Date.now()
  form,               \* state of the mounted PromptForm, None when not mounted
  player,             \* state of the mounted VideoResult, None when not mounted
  extraction          \* the video element of extractFrameFromVideo, None when
                      \* no frame is being extracted; times in tenths of a second

appVars ==
  << appState, errorMessage, timeline, currentSegmentId, lastConfig,
     lastVideoObject, lastVideoBlob, showApiKeyDialog, initialFormValues >>
hostVars ==
  << aistudio, startCheck, appState, errorMessage, timeline, currentSegmentId,
     lastConfig, lastVideoObject, lastVideoBlob, showApiKeyDialog,
     initialFormValues, attempts, nextAttempt, selectors, now, form >>
vars == << hostVars, player, extraction >>

\* ------------------------------------------------------------ PromptForm
\* An uploaded image or video (file and base64 together).
UploadedImage == [file |-> "image", base64 |-> "data"]
\* new File([blob], name)
FileOf(blob, name) == [name |-> name, content |-> blob]
UploadedVideo ==
  [file |-> FileOf([blob |-> "upload", att |-> 0], "upload.mp4"),
   base64 |-> "data"]
UploadTargets == {"startFrame", "endFrame", "referenceImages", "inputVideo"}
NoUploads == [t \in UploadTargets |-> 0]
PendingUploads(f) ==
  f.uploads.startFrame + f.uploads.endFrame + f.uploads.referenceImages
    + f.uploads.inputVideo

\* The useState initialisers of PromptForm followed by its initialValues
\* effect: every field from initialValues, a default where it has none.
FormFromInitialValues(initialValues) ==
  IF initialValues = None
  THEN [ prompt |-> <<>>, model |-> "VEO_FAST", aspectRatio |-> "LANDSCAPE",
         resolution |-> "720p", generationMode |-> "TEXT_TO_VIDEO",
         startFrame |-> None, endFrame |-> None, referenceImages |-> <<>>,
         styleImage |-> None, inputVideo |-> None, inputVideoObject |-> None,
         isLooping |-> FALSE, dialogue |-> <<>>, speaker |-> "NONE",
         showDialogueInput |-> FALSE, uploads |-> NoUploads ]
  ELSE LET v == Val(initialValues)
       IN  [ prompt |-> v.prompt, model |-> v.model,
             aspectRatio |-> v.aspectRatio, resolution |-> v.resolution,
             generationMode |-> v.mode,
             startFrame |-> v.startFrame, endFrame |-> v.endFrame,
             referenceImages |-> v.referenceImages,
             styleImage |-> v.styleImage, inputVideo |-> v.inputVideo,
             inputVideoObject |-> v.inputVideoObject,
             isLooping |-> v.isLooping,
             dialogue |-> IF v.dialogue = None THEN <<>> ELSE Val(v.dialogue),
             speaker |-> v.speaker,
             showDialogueInput |->
               \/ (v.dialogue # None /\ Val(v.dialogue) # <<>>)
               \/ v.speaker # "NONE",
             uploads |-> NoUploads ]

\* ForcedOverrides forcing nothing in reference mode.
ForcedOverrides_ExtendOnly(f) ==
  IF f.generationMode = "EXTEND_VIDEO"
  THEN [f EXCEPT !.resolution = "720p"]
  ELSE f

\* The effect on [generationMode]: the settings a mode forces.
ForcedOverrides(f) ==
  IF f.generationMode = "EXTEND_VIDEO"
  THEN [f EXCEPT !.resolution = "720p"]
  ELSE IF f.generationMode = "REFERENCES_TO_VIDEO"
  THEN [f EXCEPT !.model = "VEO", !.aspectRatio = "LANDSCAPE",
                 !.resolution = "720p"]
  ELSE f

\* The form as it stands after mounting with the given initialValues.
MountForm(initialValues) ==
  Some(ForcedOverrides(FormFromInitialValues(initialValues)))

\* isSubmitDisabled testing the prompt without trimming it.
isSubmitDisabled_NoTrim(f) ==
  CASE f.generationMode = "TEXT_TO_VIDEO" -> f.prompt = <<>>
    [] f.generationMode = "FRAMES_TO_VIDEO" -> f.startFrame = None
    [] f.generationMode = "REFERENCES_TO_VIDEO" ->
         f.prompt = <<>> \/ Len(f.referenceImages) = 0
    [] f.generationMode = "EXTEND_VIDEO" -> f.inputVideoObject = None

\* isSubmitDisabled, computed at every render
isSubmitDisabled(f) ==
  CASE f.generationMode = "TEXT_TO_VIDEO" -> Trim(f.prompt) = <<>>
    [] f.generationMode = "FRAMES_TO_VIDEO" -> f.startFrame = None
    [] f.generationMode = "REFERENCES_TO_VIDEO" ->
         Trim(f.prompt) = <<>> \/ Len(f.referenceImages) = 0
    [] f.generationMode = "EXTEND_VIDEO" -> f.inputVideoObject = None

\* The parameters handleSubmit passes to onGenerate.
SubmitParams(f) ==
  [ prompt |-> f.prompt, model |-> f.model, aspectRatio |-> f.aspectRatio,
    resolution |-> f.resolution, mode |-> f.generationMode,
    startFrame |-> f.startFrame, endFrame |-> f.endFrame,
    referenceImages |-> f.referenceImages, styleImage |-> f.styleImage,
    inputVideo |-> f.inputVideo, inputVideoObject |-> f.inputVideoObject,
    isLooping |-> f.isLooping,
    dialogue |-> IF f.showDialogueInput THEN Some(f.dialogue) ELSE None,
    speaker |-> IF f.showDialogueInput THEN f.speaker ELSE "NONE" ]

\* -------------------------------------------------------- handleGenerate
\* An invocation awaiting hasSelectedApiKey, and one past the guard with
\* its two calls launched.
Checking(id, params) ==
  [id |-> id, stage |-> "check", params |-> params, guard |-> "awaited",
   video |-> "idle", speech |-> "idle"]

\* generateSpeech called for any dialogue text, whoever the speaker.
LaunchesSpeech_AnySpeaker(params) ==
  /\ params.dialogue # None
  /\ Val(params.dialogue) # <<>>

\* Whether handleGenerate calls generateSpeech for these parameters.
LaunchesSpeech(params) ==
  /\ params.dialogue # None
  /\ Val(params.dialogue) # <<>>
  /\ params.speaker # "NONE"

\* guard tells how the invocation got past the key check: "passed" when
\* hasSelectedApiKey answered true, "absent" when window.aistudio is missing.
Launched(id, params, guard) ==
  [id |-> id, stage |-> "run", params |-> params, guard |-> guard,
   video |-> "pending",
   speech |-> IF LaunchesSpeech(params) THEN "pending" ELSE "none"]

\* EnterLoading without setInitialFormValues(null).
EnterLoading_KeepsDraft(params) ==
  /\ appState' = "LOADING"
  /\ player' = None
  /\ errorMessage' = None
  /\ lastConfig' = Some(params)
  /\ initialFormValues' = initialFormValues
  /\ form' = None

\* The state updates between the guard and the try block.  The form is
\* rendered in IDLE only, so it unmounts.
EnterLoading(params) ==
  /\ appState' = "LOADING"
  /\ player' = None
  /\ errorMessage' = None
  /\ lastConfig' = Some(params)
  /\ initialFormValues' = None
  /\ form' = None

\* Invoke without the key check: generation starts at once.
Invoke_Unguarded(params) ==
  /\ nextAttempt' = nextAttempt + 1
  /\ attempts' = attempts \cup {Launched(nextAttempt, params, "absent")}
  /\ EnterLoading(params)

\* handleGenerate(params) up to its first await: with window.aistudio the
\* invocation waits for the key check, without it generation starts at once.
Invoke(params) ==
  /\ nextAttempt' = nextAttempt + 1
  /\ IF aistudio
     THEN /\ attempts' = attempts \cup {Checking(nextAttempt, params)}
          /\ UNCHANGED << appState, player, errorMessage, lastConfig,
                          initialFormValues, form >>
     ELSE /\ attempts' = attempts \cup {Launched(nextAttempt, params, "absent")}
          /\ EnterLoading(params)

\* hasSelectedApiKey answered true.
GuardPassed(a) ==
  /\ a \in attempts
  /\ a.stage = "check"
  /\ attempts' = (attempts \ {a}) \cup {Launched(a.id, a.params, "passed")}
  /\ EnterLoading(a.params)
  /\ UNCHANGED << aistudio, extraction, startCheck, timeline, currentSegmentId,
                  lastVideoObject, lastVideoBlob, showApiKeyDialog,
                  nextAttempt, selectors, now >>

\* GuardRefused without its return: the dialog opens and generation starts.
GuardRefused_NoReturn(a) ==
  /\ a \in attempts
  /\ a.stage = "check"
  /\ attempts' = (attempts \ {a}) \cup {Launched(a.id, a.params, "refused")}
  /\ EnterLoading(a.params)
  /\ showApiKeyDialog' = TRUE
  /\ UNCHANGED << aistudio, extraction, startCheck, timeline, currentSegmentId,
                  lastVideoObject, lastVideoBlob, nextAttempt, selectors,
                  now >>

\* hasSelectedApiKey answered false or threw: the dialog opens and the
\* invocation returns.
GuardRefused(a) ==
  /\ a \in attempts
  /\ a.stage = "check"
  /\ attempts' = attempts \ {a}
  /\ showApiKeyDialog' = TRUE
  /\ UNCHANGED << aistudio, extraction, startCheck, appState, player, errorMessage, timeline,
                  currentSegmentId, lastConfig, lastVideoObject,
                  lastVideoBlob, initialFormValues, nextAttempt, selectors,
                  now, form >>

\* The join waiting for the video alone.
JoinResolved_VideoOnly(a) == a.video = "ok"

\* Promise.all([videoPromise, speechPromise]) is fulfilled.
JoinResolved(a) == a.video = "ok" /\ a.speech \in {"ok", "none"}

\* What generateVideo and generateSpeech hand back to attempt id.
VideoResultOf(id) ==
  [ objectUrl |-> [url |-> "video", att |-> id],
    blob |-> [blob |-> "video", att |-> id],
    video |-> [handle |-> "video", att |-> id] ]
SpeechResultOf(id) == [audioUrl |-> [url |-> "audio", att |-> id]]

\* The StorySegment built after the join, at clock reading t.
NewSegment(a, t) ==
  [ id |-> t,
    videoUrl |-> VideoResultOf(a.id).objectUrl,
    audioUrl |-> IF a.speech = "ok" THEN Some(SpeechResultOf(a.id).audioUrl)
                 ELSE None,
    prompt |-> a.params.prompt,
    dialogue |-> a.params.dialogue,
    speaker |-> a.params.speaker,
    joined |-> [video |-> a.video, speech |-> a.speech] ]

\* timeline.find(s => s.id === currentSegmentId), when it finds a segment:
\* the first segment with that id.
FindSegment(segments, id) ==
  segments[CHOOSE i \in 1..Len(segments) :
             /\ segments[i].id = id
             /\ \A j \in 1..(i - 1) : segments[j].id # id]

\* useState of VideoResult when it mounts.  played is a history field: the
\* segments that were on view when the scene-ended signals of the playback
\* under way arrived, None once something else has touched the player.
MountVideoResult(currentSegment) ==
  [ isPlayingStory |-> FALSE, storyIndex |-> 0,
    viewingSegment |-> currentSegment, played |-> None ]

\* VideoResult after App appended a segment in SUCCESS: it mounts, or it is
\* rendered again with new props and its two viewing effects run, the first
\* when currentSegment is another object, the second on the new timeline.
Rerendered(mounted, oldTimeline, oldId, newTimeline, newId) ==
  LET current == FindSegment(newTimeline, Val(newId))
  IN  IF mounted = None
      THEN MountVideoResult(current)
      ELSE LET p == Val(mounted)
           IN  IF p.isPlayingStory
               THEN [p EXCEPT
                       !.viewingSegment =
                          IF p.storyIndex < Len(newTimeline)
                          THEN newTimeline[p.storyIndex + 1] ELSE @,
                       !.played = None]
               ELSE [p EXCEPT
                       !.viewingSegment =
                          IF current # FindSegment(oldTimeline, Val(oldId))
                          THEN current ELSE @,
                       !.played = None]

\* The try block after the await: the segment is appended and shown.
\* Date.now() reads the clock, which has gone on by one of the given steps
\* since its last reading.
CommitSegment(a, elapsed) ==
  \E t \in {now + d : d \in elapsed} :
    /\ now' = t
    /\ timeline' = Append(timeline, NewSegment(a, t))
    /\ currentSegmentId' = Some(t)
    /\ lastVideoBlob' = Some(VideoResultOf(a.id).blob)
    /\ lastVideoObject' = Some(VideoResultOf(a.id).video)
    /\ appState' = "SUCCESS"
    /\ player' = Some(Rerendered(player, timeline, currentSegmentId,
                                 Append(timeline, NewSegment(a, t)), Some(t)))
    /\ form' = None
    /\ UNCHANGED << errorMessage, lastConfig, showApiKeyDialog,
                    initialFormValues >>

\* CatchFailure dropping the retained video as well.
CatchFailure_ClearsArtifact(error) ==
  LET c == CatchClassification(error)
  IN  /\ errorMessage' = Some(c.userFriendlyMessage)
      /\ appState' = "ERROR"
      /\ player' = None
      /\ showApiKeyDialog' = (showApiKeyDialog \/ c.shouldOpenDialog)
      /\ form' = None
      /\ lastVideoBlob' = None
      /\ lastVideoObject' = None
      /\ UNCHANGED << timeline, currentSegmentId, lastConfig,
                      initialFormValues, now >>

\* The catch block: the attempt ends in ERROR.
CatchFailure(error) ==
  LET c == CatchClassification(error)
  IN  /\ errorMessage' = Some(c.userFriendlyMessage)
      /\ appState' = "ERROR"
      /\ player' = None
      /\ showApiKeyDialog' = (showApiKeyDialog \/ c.shouldOpenDialog)
      /\ form' = None
      /\ UNCHANGED << timeline, currentSegmentId, lastVideoBlob,
                      lastVideoObject, lastConfig, initialFormValues, now >>

\* Settle with a catch block that swallows the rejection: the attempt ends
\* and no state is set.
Settle_SwallowsRejection(a, b, rejection, elapsed) ==
  /\ a \in attempts
  /\ a.stage = "run"
  /\ IF rejection # None
     THEN /\ attempts' = attempts \ {a}
          /\ UNCHANGED << appVars, player, now, form >>
     ELSE IF JoinResolved(b)
     THEN CommitSegment(b, elapsed) /\ attempts' = attempts \ {a}
     ELSE /\ attempts' = (attempts \ {a}) \cup {b}
          /\ UNCHANGED << appVars, player, now, form >>
  /\ UNCHANGED << aistudio, extraction, startCheck, nextAttempt, selectors >>

\* One of the two calls of attempt a settles, leaving the attempt as b; with
\* a rejection the await throws at once, with both fulfilled it returns.
Settle(a, b, rejection, elapsed) ==
  /\ a \in attempts
  /\ a.stage = "run"
  /\ IF rejection # None
     THEN CatchFailure(Val(rejection)) /\ attempts' = attempts \ {a}
     ELSE IF JoinResolved(b)
     THEN CommitSegment(b, elapsed) /\ attempts' = attempts \ {a}
     ELSE /\ attempts' = (attempts \ {a}) \cup {b}
          /\ UNCHANGED << appVars, player, now, form >>
  /\ UNCHANGED << aistudio, extraction, startCheck, nextAttempt, selectors >>

VideoFulfilled(a, elapsed) ==
  a.video = "pending" /\ Settle(a, [a EXCEPT !.video = "ok"], None, elapsed)
VideoRejected(a, error) ==
  a.video = "pending"
    /\ Settle(a, [a EXCEPT !.video = "err"], Some(error), {})
SpeechFulfilled(a, elapsed) ==
  a.speech = "pending" /\ Settle(a, [a EXCEPT !.speech = "ok"], None, elapsed)
SpeechRejected(a, error) ==
  a.speech = "pending"
    /\ Settle(a, [a EXCEPT !.speech = "err"], Some(error), {})

\* ------------------------------------------------------- App: what shows
\* timeline.find(s => s.id === currentSegmentId) finds a segment.
HasCurrentSegment ==
  /\ currentSegmentId # None
  /\ \E i \in 1..Len(timeline) : timeline[i].id = Val(currentSegmentId)

\* The SUCCESS branch that renders VideoResult with its buttons.
VideoResultShown == appState = "SUCCESS" /\ HasCurrentSegment

\* The branches that render renderError with its Try Again button.
ErrorShown ==
  \/ appState = "ERROR" /\ errorMessage # None /\ Val(errorMessage) # <<>>
  \/ appState = "SUCCESS" /\ ~HasCurrentSegment

\* The Retry, Add Next Scene and Extend buttons are rendered while the story
\* is not playing.
ActionButtonsShown ==
  VideoResultShown /\ player # None /\ ~Val(player).isPlayingStory

\* The segment App hands to VideoResult as currentSegment.
currentSegment == FindSegment(timeline, Val(currentSegmentId))

\* canExtend refusing 4k only.
canExtend_AllButFourK == lastConfig # None /\ Val(lastConfig).resolution # "4k"

canExtend == lastConfig # None /\ Val(lastConfig).resolution = "720p"

\* ------------------------------------------------------ App: the handlers
\* The mount effect's checkApiKey gets its answer.
checkApiKey(hasKey) ==
  /\ startCheck = "pending"
  /\ startCheck' = "done"
  /\ showApiKeyDialog' = (showApiKeyDialog \/ ~hasKey)
  /\ UNCHANGED << aistudio, extraction, appState, player, errorMessage, timeline,
                  currentSegmentId, lastConfig, lastVideoObject,
                  lastVideoBlob, initialFormValues, attempts, nextAttempt,
                  selectors, now, form >>

\* The Retry button of VideoResult.
handleRetry ==
  /\ ActionButtonsShown
  /\ IF lastConfig # None
     THEN Invoke(Val(lastConfig))
     ELSE UNCHANGED << appState, player, errorMessage, lastConfig, initialFormValues,
                       form, attempts, nextAttempt >>
  /\ UNCHANGED << aistudio, extraction, startCheck, timeline, currentSegmentId,
                  lastVideoObject, lastVideoBlob, showApiKeyDialog,
                  selectors, now >>

\* The end of handleApiKeyDialogContinue, with the appState and lastConfig
\* of the render whose handler was called.
RetryAfterSelection(seenAppState, seenLastConfig) ==
  IF seenAppState = "ERROR" /\ seenLastConfig # None
  THEN Invoke(Val(seenLastConfig))
  ELSE UNCHANGED << appState, player, errorMessage, lastConfig, initialFormValues,
                    form, attempts, nextAttempt >>

\* The dialog's Continue button: with window.aistudio the handler waits for
\* openSelectKey, without it the handler runs to its end.
handleApiKeyDialogContinue ==
  /\ showApiKeyDialog
  /\ showApiKeyDialog' = FALSE
  /\ IF aistudio
     THEN /\ Len(selectors) < MaxSelectors
          /\ selectors' = Append(selectors,
                [appState |-> appState, lastConfig |-> lastConfig])
          /\ UNCHANGED << appState, player, errorMessage, lastConfig,
                          initialFormValues, form, attempts, nextAttempt >>
     ELSE /\ RetryAfterSelection(appState, lastConfig)
          /\ UNCHANGED selectors
  /\ UNCHANGED << aistudio, extraction, startCheck, timeline, currentSegmentId,
                  lastVideoObject, lastVideoBlob, now >>

\* openSelectKey settles for the i-th waiting handler; when it rejects the
\* handler ends there.
SelectorReturned(i, fulfilled) ==
  /\ i \in 1..Len(selectors)
  /\ selectors' = [j \in 1..(Len(selectors) - 1) |->
                     IF j < i THEN selectors[j] ELSE selectors[j + 1]]
  /\ IF fulfilled
     THEN RetryAfterSelection(selectors[i].appState, selectors[i].lastConfig)
     ELSE UNCHANGED << appState, player, errorMessage, lastConfig, initialFormValues,
                       form, attempts, nextAttempt >>
  /\ UNCHANGED << aistudio, extraction, startCheck, timeline, currentSegmentId,
                  lastVideoObject, lastVideoBlob, showApiKeyDialog, now >>

\* ResetStory leaving the last config and the retained video in place.
ResetStory_KeepsLast ==
  /\ appState' = "IDLE"
  /\ player' = None
  /\ errorMessage' = None
  /\ initialFormValues' = None
  /\ timeline' = <<>>
  /\ currentSegmentId' = None
  /\ form' = MountForm(None)
  /\ UNCHANGED << lastConfig, lastVideoObject, lastVideoBlob >>

\* The body of handleNewVideo; a fresh form mounts.
ResetStory ==
  /\ appState' = "IDLE"
  /\ player' = None
  /\ errorMessage' = None
  /\ lastConfig' = None
  /\ lastVideoObject' = None
  /\ lastVideoBlob' = None
  /\ initialFormValues' = None
  /\ timeline' = <<>>
  /\ currentSegmentId' = None
  /\ form' = MountForm(None)

\* A draft is staged and the form mounts with it.
StageDraft(draft) ==
  /\ initialFormValues' = Some(draft)
  /\ appState' = "IDLE"
  /\ player' = None
  /\ errorMessage' = None
  /\ form' = MountForm(Some(draft))

\* The New Story button.
handleNewVideo ==
  /\ VideoResultShown
  /\ ResetStory
  /\ UNCHANGED << aistudio, extraction, startCheck, showApiKeyDialog, attempts,
                  nextAttempt, selectors, now >>

\* nextParams keeping the mode of the last config, extend mode too.
NextSceneParams_KeepsMode(config) ==
  [config EXCEPT
     !.prompt = <<>>,
     !.dialogue = Some(<<>>),
     !.startFrame = None,
     !.endFrame = None,
     !.inputVideo = None,
     !.inputVideoObject = None,
     !.isLooping = FALSE]

\* nextParams of handleAddScene
NextSceneParams(config) ==
  [config EXCEPT
     !.prompt = <<>>,
     !.dialogue = Some(<<>>),
     !.mode = IF config.mode = "EXTEND_VIDEO" THEN "TEXT_TO_VIDEO"
              ELSE config.mode,
     !.startFrame = None,
     !.endFrame = None,
     !.inputVideo = None,
     !.inputVideoObject = None,
     !.isLooping = FALSE]

\* The Add Next Scene button.
handleAddScene ==
  /\ ActionButtonsShown
  /\ IF lastConfig # None
     THEN /\ StageDraft(NextSceneParams(Val(lastConfig)))
          /\ UNCHANGED << lastConfig, lastVideoObject, lastVideoBlob,
                          timeline, currentSegmentId >>
     ELSE ResetStory
  /\ UNCHANGED << aistudio, extraction, startCheck, showApiKeyDialog, attempts,
                  nextAttempt, selectors, now >>

\* The Try Again button of renderError.
handleTryAgainFromError ==
  /\ ErrorShown
  /\ IF lastConfig # None
     THEN /\ StageDraft(Val(lastConfig))
          /\ UNCHANGED << lastConfig, lastVideoObject, lastVideoBlob,
                          timeline, currentSegmentId >>
     ELSE ResetStory
  /\ UNCHANGED << aistudio, extraction, startCheck, showApiKeyDialog, attempts,
                  nextAttempt, selectors, now >>

\* showStatusError without setErrorMessage.
showStatusError_NoMessage(message) ==
  /\ errorMessage' = errorMessage
  /\ appState' = "ERROR"
  /\ player' = None

showStatusError(message) ==
  /\ errorMessage' = Some(message)
  /\ appState' = "ERROR"
  /\ player' = None

\* The draft of handleExtend keeping the reference images.
ExtendParams_KeepsReferences(config, blob, videoObject) ==
  [config EXCEPT
     !.mode = "EXTEND_VIDEO",
     !.prompt = <<>>,
     !.inputVideo = Some([file |-> FileOf(blob, "last_video.mp4"),
                          base64 |-> ""]),
     !.inputVideoObject = Some(videoObject),
     !.resolution = "720p",
     !.startFrame = None,
     !.endFrame = None,
     !.styleImage = None,
     !.isLooping = FALSE,
     !.dialogue = Some(<<>>),
     !.speaker = "NONE"]

\* The draft handleExtend stages: the last video wrapped as a File.
ExtendParams(config, blob, videoObject) ==
  [config EXCEPT
     !.mode = "EXTEND_VIDEO",
     !.prompt = <<>>,
     !.inputVideo = Some([file |-> FileOf(blob, "last_video.mp4"),
                          base64 |-> ""]),
     !.inputVideoObject = Some(videoObject),
     !.resolution = "720p",
     !.startFrame = None,
     !.endFrame = None,
     !.referenceImages = <<>>,
     !.styleImage = None,
     !.isLooping = FALSE,
     !.dialogue = Some(<<>>),
     !.speaker = "NONE"]

\* handleExtend whose catch block also drops the retained video.
handleExtend_ThrowDropsVideo(thrown) ==
  /\ ActionButtonsShown
  /\ canExtend
  /\ IF lastConfig # None /\ lastVideoBlob # None /\ lastVideoObject # None
     THEN IF thrown = None
          THEN /\ StageDraft(ExtendParams(Val(lastConfig), Val(lastVideoBlob),
                                          Val(lastVideoObject)))
               /\ UNCHANGED << lastConfig, lastVideoObject, lastVideoBlob,
                               timeline, currentSegmentId >>
          ELSE /\ showStatusError(
                    << "Failed to prepare video for extension: " >>
                      \o (IF Val(thrown).isError THEN Val(thrown).message
                          ELSE << "An unknown error occurred." >>))
               /\ lastVideoBlob' = None
               /\ lastVideoObject' = None
               /\ UNCHANGED << lastConfig, timeline, currentSegmentId,
                               initialFormValues, form >>
     ELSE /\ thrown = None
          /\ UNCHANGED << appState, player, errorMessage, lastConfig,
                          lastVideoObject, lastVideoBlob, timeline,
                          currentSegmentId, initialFormValues, form >>
  /\ UNCHANGED << aistudio, extraction, startCheck, showApiKeyDialog,
                  attempts, nextAttempt, selectors, now >>

\* The Extend button, enabled when canExtend; the File constructor may throw.
handleExtend(thrown) ==
  /\ ActionButtonsShown
  /\ canExtend
  /\ IF lastConfig # None /\ lastVideoBlob # None /\ lastVideoObject # None
     THEN IF thrown = None
          THEN /\ StageDraft(ExtendParams(Val(lastConfig), Val(lastVideoBlob),
                                          Val(lastVideoObject)))
               /\ UNCHANGED << lastConfig, lastVideoObject, lastVideoBlob,
                               timeline, currentSegmentId >>
          ELSE /\ showStatusError(
                    << "Failed to prepare video for extension: " >>
                      \o (IF Val(thrown).isError THEN Val(thrown).message
                          ELSE << "An unknown error occurred." >>))
               /\ UNCHANGED << lastConfig, lastVideoObject, lastVideoBlob,
                               timeline, currentSegmentId, initialFormValues,
                               form >>
     ELSE /\ thrown = None
          /\ UNCHANGED << appState, player, errorMessage, lastConfig, lastVideoObject,
                          lastVideoBlob, timeline, currentSegmentId,
                          initialFormValues, form >>
  /\ UNCHANGED << aistudio, extraction, startCheck, showApiKeyDialog, attempts,
                  nextAttempt, selectors, now >>

\* ------------------------------------------------ VideoResult: playback
\* A handler of the mounted VideoResult leaves it as p; App is untouched.
PlayerBecomes(p) ==
  /\ player' = Some(p)
  /\ UNCHANGED << hostVars, extraction >>

\* The Play Full Story / Stop Story button, rendered when the timeline has
\* more than one segment, and the viewing effect that follows it.
togglePlayStory ==
  /\ player # None
  /\ Len(timeline) > 1
  /\ LET p == Val(player)
     IN  IF p.isPlayingStory
         THEN PlayerBecomes([p EXCEPT !.isPlayingStory = FALSE,
                                      !.viewingSegment = currentSegment,
                                      !.played = None])
         ELSE PlayerBecomes([p EXCEPT !.storyIndex = 0,
                                      !.isPlayingStory = TRUE,
                                      !.viewingSegment = timeline[1],
                                      !.played = Some(<<>>)])

\* handleVideoEnded without its test for the last index: the index always
\* moves on, and the viewing effect finds no segment beyond the timeline.
handleVideoEnded_PastTheEnd ==
  /\ player # None
  /\ LET p == Val(player)
     IN  IF p.isPlayingStory
         THEN PlayerBecomes([p EXCEPT
                               !.storyIndex = @ + 1,
                               !.viewingSegment =
                                  IF p.storyIndex + 1 < Len(timeline)
                                  THEN timeline[p.storyIndex + 2] ELSE @,
                               !.played = None])
         ELSE PlayerBecomes(p)

\* onEnded of the video element, and the viewing effect that follows it.
handleVideoEnded ==
  /\ player # None
  /\ LET p == Val(player)
         played == IF p.played = None THEN None
                   ELSE Some(Append(Val(p.played), p.viewingSegment))
     IN  IF p.isPlayingStory
         THEN IF p.storyIndex < Len(timeline) - 1
              THEN PlayerBecomes([p EXCEPT
                                    !.storyIndex = @ + 1,
                                    !.viewingSegment = timeline[p.storyIndex + 2],
                                    !.played = played])
              ELSE PlayerBecomes([p EXCEPT !.isPlayingStory = FALSE,
                                           !.storyIndex = 0,
                                           !.viewingSegment = currentSegment,
                                           !.played = played])
         ELSE PlayerBecomes(p)

\* The card's onClick without its test of isPlayingStory.
selectSegment_WhilePlaying(i) ==
  /\ player # None
  /\ i \in 1..Len(timeline)
  /\ PlayerBecomes([Val(player) EXCEPT !.viewingSegment = timeline[i],
                                       !.played = None])

\* A click on the i-th card of the storyboard timeline.
selectSegment(i) ==
  /\ player # None
  /\ i \in 1..Len(timeline)
  /\ LET p == Val(player)
     IN  IF ~p.isPlayingStory
         THEN PlayerBecomes([p EXCEPT !.viewingSegment = timeline[i],
                                      !.played = None])
         ELSE PlayerBecomes(p)

\* ------------------------------------------------- PromptForm: handlers
\* A handler of the mounted form leaves it as f; App is untouched.
FormBecomes(f) ==
  /\ form' = Some(f)
  /\ UNCHANGED << aistudio, extraction, startCheck, appVars, player, attempts, nextAttempt,
                  selectors, now >>

\* handleSubmit behind a button that is never disabled.
handleSubmit_Unguarded ==
  /\ form # None
  /\ Invoke(SubmitParams(Val(form)))
  /\ UNCHANGED << aistudio, extraction, startCheck, timeline, currentSegmentId,
                  lastVideoObject, lastVideoBlob, showApiKeyDialog,
                  selectors, now >>

\* The Generate button, disabled while isSubmitDisabled: handleSubmit.
handleSubmit ==
  /\ form # None
  /\ ~isSubmitDisabled(Val(form))
  /\ Invoke(SubmitParams(Val(form)))
  /\ UNCHANGED << aistudio, extraction, startCheck, timeline, currentSegmentId,
                  lastVideoObject, lastVideoBlob, showApiKeyDialog,
                  selectors, now >>

\* A click on the Generate button while it is disabled does nothing.
SubmitBlocked ==
  /\ form # None
  /\ isSubmitDisabled(Val(form))
  /\ UNCHANGED vars

setPrompt(text) ==
  form # None /\ FormBecomes([Val(form) EXCEPT !.prompt = text])

\* The Model and Aspect Ratio selects are disabled in reference mode.
setModel(m) ==
  /\ form # None
  /\ Val(form).generationMode # "REFERENCES_TO_VIDEO"
  /\ FormBecomes([Val(form) EXCEPT !.model = m])

setAspectRatio(r) ==
  /\ form # None
  /\ Val(form).generationMode # "REFERENCES_TO_VIDEO"
  /\ FormBecomes([Val(form) EXCEPT !.aspectRatio = r])

\* The Resolution select is disabled in extend and reference mode.
setResolution(r) ==
  /\ form # None
  /\ Val(form).generationMode \notin {"EXTEND_VIDEO", "REFERENCES_TO_VIDEO"}
  /\ FormBecomes([Val(form) EXCEPT !.resolution = r])

selectableModes == {"TEXT_TO_VIDEO", "FRAMES_TO_VIDEO", "REFERENCES_TO_VIDEO"}

\* handleSelectMode leaving the input video and its handle in place.
handleSelectMode_KeepsVideo(mode) ==
  /\ form # None
  /\ mode \in selectableModes
  /\ FormBecomes(ForcedOverrides(
        [Val(form) EXCEPT !.generationMode = mode,
                          !.startFrame = None, !.endFrame = None,
                          !.referenceImages = <<>>, !.styleImage = None,
                          !.isLooping = FALSE]))

\* handleSelectMode and the effect on [generationMode] that follows it.
handleSelectMode(mode) ==
  /\ form # None
  /\ mode \in selectableModes
  /\ FormBecomes(ForcedOverrides(
        [Val(form) EXCEPT !.generationMode = mode,
                          !.startFrame = None, !.endFrame = None,
                          !.referenceImages = <<>>, !.styleImage = None,
                          !.inputVideo = None, !.inputVideoObject = None,
                          !.isLooping = FALSE]))

toggleDialogueInput ==
  /\ form # None
  /\ FormBecomes([Val(form) EXCEPT
                    !.showDialogueInput = ~Val(form).showDialogueInput])

\* The speaker select and the dialogue textarea show with the dialogue panel.
setSpeaker(s) ==
  /\ form # None
  /\ Val(form).showDialogueInput
  /\ FormBecomes([Val(form) EXCEPT !.speaker = s])

setDialogue(text) ==
  /\ form # None
  /\ Val(form).showDialogueInput
  /\ FormBecomes([Val(form) EXCEPT !.dialogue = text])

\* Whether the upload button of a target is rendered: the frames in frames
\* mode (the end frame unless looping), an empty reference slot among the
\* three in reference mode, the input video in extend mode.
UploadOffered(f, target) ==
  CASE target = "startFrame" ->
         f.generationMode = "FRAMES_TO_VIDEO" /\ f.startFrame = None
    [] target = "endFrame" ->
         f.generationMode = "FRAMES_TO_VIDEO" /\ ~f.isLooping
           /\ f.endFrame = None
    [] target = "referenceImages" ->
         f.generationMode = "REFERENCES_TO_VIDEO" /\ Len(f.referenceImages) < 3
    [] target = "inputVideo" ->
         f.generationMode = "EXTEND_VIDEO" /\ f.inputVideo = None

\* handleFileChange of ImageUpload and VideoUpload up to its await.
handleFileChange(target) ==
  /\ form # None
  /\ UploadOffered(Val(form), target)
  /\ FormBecomes([Val(form) EXCEPT !.uploads[target] = @ + 1])

\* The onSelect of each upload button.
onSelect(f, target) ==
  CASE target = "startFrame" -> [f EXCEPT !.startFrame = Some(UploadedImage)]
    [] target = "endFrame" -> [f EXCEPT !.endFrame = Some(UploadedImage)]
    [] target = "referenceImages" ->
         [f EXCEPT !.referenceImages = Append(@, UploadedImage)]
    [] target = "inputVideo" -> [f EXCEPT !.inputVideo = Some(UploadedVideo)]

\* The file was read (or its frame extracted): onSelect is called; when the
\* read fails the handler only logs.
FileRead(target, ok) ==
  /\ form # None
  /\ Val(form).uploads[target] > 0
  /\ LET f == [Val(form) EXCEPT !.uploads[target] = @ - 1]
     IN  FormBecomes(IF ok THEN onSelect(f, target) ELSE f)

\* A step of the frame extraction leaves its video element as e.
ExtractionBecomes(e) ==
  /\ extraction' = e
  /\ UNCHANGED << hostVars, player >>

\* The seek target of onloadeddata one tenth of a second too eager: a clip
\* of half a second is sought near its end.
SeekTarget_FromHalfSecond(duration) ==
  IF duration >= 5 THEN duration - 1 ELSE 0

\* The seek target of onloadeddata: duration - 0.1 above half a second.
SeekTarget(duration) ==
  IF duration > 5 THEN duration - 1 ELSE 0

\* extractFrameFromVideo(videoFile): a video element is created for a file
\* of the given duration.
extractFrameFromVideo(duration) ==
  /\ form # None
  /\ extraction = None
  /\ ExtractionBecomes(Some([duration |-> duration, currentTime |-> 0,
                             seeking |-> FALSE]))

\* video.onloadeddata sets currentTime, which starts the seek.
onloadeddata ==
  /\ extraction # None
  /\ ~Val(extraction).seeking
  /\ LET video == Val(extraction)
     IN  ExtractionBecomes(Some([video EXCEPT
                                   !.currentTime = SeekTarget(video.duration),
                                   !.seeking = TRUE]))

\* video.onseeked draws the frame and the promise resolves.
onseeked ==
  /\ extraction # None
  /\ Val(extraction).seeking
  /\ ExtractionBecomes(None)

\* video.onerror rejects the promise.
onerror ==
  /\ extraction # None
  /\ ExtractionBecomes(None)

\* The remove buttons.
removeStartFrame ==
  /\ form # None
  /\ Val(form).generationMode = "FRAMES_TO_VIDEO"
  /\ Val(form).startFrame # None
  /\ FormBecomes([Val(form) EXCEPT !.startFrame = None, !.isLooping = FALSE])

removeEndFrame ==
  /\ form # None
  /\ Val(form).generationMode = "FRAMES_TO_VIDEO"
  /\ ~Val(form).isLooping
  /\ Val(form).endFrame # None
  /\ FormBecomes([Val(form) EXCEPT !.endFrame = None])

removeReferenceImage(i) ==
  /\ form # None
  /\ Val(form).generationMode = "REFERENCES_TO_VIDEO"
  /\ i \in 0..2
  /\ i < Len(Val(form).referenceImages)
  /\ LET imgs == Val(form).referenceImages
     IN  FormBecomes([Val(form) EXCEPT !.referenceImages =
           [j \in 1..(Len(imgs) - 1) |->
              IF j < i + 1 THEN imgs[j] ELSE imgs[j + 1]]])

removeInputVideo ==
  /\ form # None
  /\ Val(form).generationMode = "EXTEND_VIDEO"
  /\ Val(form).inputVideo # None
  /\ FormBecomes([Val(form) EXCEPT !.inputVideo = None,
                                   !.inputVideoObject = None])

\* The looping checkbox, rendered with a start frame and no end frame.
setIsLooping(checked) ==
  /\ form # None
  /\ Val(form).generationMode = "FRAMES_TO_VIDEO"
  /\ Val(form).startFrame # None
  /\ Val(form).endFrame = None
  /\ FormBecomes([Val(form) EXCEPT !.isLooping = checked])

\* ------------------------------------------------------- specifications
\* The state after App and its PromptForm have mounted.
Init ==
  /\ aistudio \in BOOLEAN
  /\ startCheck = IF aistudio THEN "pending" ELSE "skipped"
  /\ appState = "IDLE"
  /\ errorMessage = None
  /\ timeline = <<>>
  /\ currentSegmentId = None
  /\ lastConfig = None
  /\ lastVideoObject = None
  /\ lastVideoBlob = None
  /\ showApiKeyDialog = FALSE
  /\ initialFormValues = None
  /\ attempts = {}
  /\ nextAttempt = 1
  /\ selectors = <<>>
  /\ now = 0
  /\ form = MountForm(None)
  /\ player = None
  /\ extraction = None

\* The model has no more than n file reads pending at a time.
UploadsLeft(n) == form # None /\ PendingUploads(Val(form)) < n

\* The model starts no attempt beyond the n-th.
StartsLeft(n) == nextAttempt <= n

\* What the two services and the File constructor fail with.
ServiceErrors == {ErrorValue(<< "boom" >>), ErrorValue(<< "403" >>)}
ThrownErrors == {ErrorValue(<< "boom" >>)}

\* The steps of an attempt's speech call.
SpeechNext(elapsed, errors) ==
  \/ \E a \in attempts : SpeechFulfilled(a, elapsed)
  \/ \E a \in attempts, e \in errors : SpeechRejected(a, e)

\* The steps of App but for the speech call and the Retry button, with at
\* most n attempts started, the clock going on by one of the steps in
\* elapsed between two readings, and the video service failing with one of
\* errors.
AppNext(n, elapsed, errors) ==
  \/ \E hasKey \in BOOLEAN : checkApiKey(hasKey)
  \/ \E a \in attempts : GuardPassed(a)
  \/ \E a \in attempts : GuardRefused(a)
  \/ \E a \in attempts : VideoFulfilled(a, elapsed)
  \/ \E a \in attempts, e \in errors : VideoRejected(a, e)
  \/ StartsLeft(n) /\ handleSubmit
  \/ SubmitBlocked
  \/ StartsLeft(n) /\ handleApiKeyDialogContinue
  \/ \E i \in 1..Len(selectors), fulfilled \in BOOLEAN :
       StartsLeft(n) /\ SelectorReturned(i, fulfilled)
  \/ handleNewVideo
  \/ handleAddScene
  \/ handleTryAgainFromError
  \/ \E thrown \in {None} \cup {Some(e) : e \in ThrownErrors} :
       handleExtend(thrown)

\* The orchestrator with every interleaving of up to MaxStarts attempts; the
\* user types a prompt and writes a line of dialogue, and the clock moves on
\* between two completions.
Next ==
  \/ AppNext(MaxStarts, {1}, ServiceErrors)
  \/ SpeechNext({1}, ServiceErrors)
  \/ StartsLeft(MaxStarts) /\ handleRetry
  \/ setPrompt(<< "a" >>)
  \/ toggleDialogueInput
  \/ setSpeaker("ELENA")
  \/ setDialogue(<< "a" >>)

Spec == Init /\ [][Next]_vars

\* The key check of an invocation gets its answer.
KeyCheckAnswers ==
  \E a \in attempts : GuardPassed(a) \/ GuardRefused(a)

\* A call to one of the two services settles, fulfilled or rejected.
ServicesRespond ==
  \E a \in attempts :
    \/ VideoFulfilled(a, {1})
    \/ SpeechFulfilled(a, {1})
    \/ \E e \in ServiceErrors : VideoRejected(a, e) \/ SpeechRejected(a, e)

\* Spec with a key check and services that answer in the end.
SpecFair == Spec /\ WF_vars(KeyCheckAnswers) /\ WF_vars(ServicesRespond)

\* Every raw error: any text of up to MaxErrLen fragments, or a rejection
\* value that is no Error.
AllErrors ==
  {NonErrorValue} \cup {ErrorValue(m) : m \in SeqsUpTo(Fragments, MaxErrLen)}

\* One attempt failing with every raw error, in its video call or in its
\* speech call, with the key dialog closed or already open.
NextClassify ==
  \/ AppNext(MaxClassifyStarts, {1}, AllErrors)
  \/ SpeechNext({1}, AllErrors)
  \/ setPrompt(<< "a" >>)
  \/ toggleDialogueInput
  \/ setSpeaker("ELENA")
  \/ setDialogue(<< "a" >>)

SpecClassify == Init /\ [][NextClassify]_vars

\* What the services fail with in the form specification: an error that
\* opens the key dialog.
FormErrors == {ErrorValue(<< "403" >>)}

\* The steps of the mounted form: every input of the form is used.
FormNext ==
  \/ \E text \in SeqsUpTo(Chars, MaxPromptLen) : setPrompt(text)
  \/ \E mode \in Modes : handleSelectMode(mode)
  \/ \E target \in UploadTargets :
       UploadsLeft(MaxUploads) /\ handleFileChange(target)
  \/ \E target \in UploadTargets, ok \in BOOLEAN : FileRead(target, ok)
  \/ removeStartFrame
  \/ removeEndFrame
  \/ \E i \in 0..2 : removeReferenceImage(i)
  \/ removeInputVideo
  \/ \E checked \in BOOLEAN : setIsLooping(checked)

\* The form with all its inputs and the orchestrator up to its first
\* attempts: what the form is mounted with (nothing, or the draft of add
\* next scene, extend or try again) and what is typed and uploaded into it.
NextForm ==
  \/ FormNext
  \/ \E hasKey \in BOOLEAN : checkApiKey(hasKey)
  \/ \E a \in attempts : GuardPassed(a)
  \/ \E a \in attempts : GuardRefused(a)
  \/ \E a \in attempts : VideoFulfilled(a, {1})
  \/ \E a \in attempts, e \in FormErrors : VideoRejected(a, e)
  \/ StartsLeft(MaxFormStarts) /\ handleSubmit
  \/ SubmitBlocked
  \/ handleNewVideo
  \/ handleAddScene
  \/ handleTryAgainFromError
  \/ \E thrown \in {None} \cup {Some(e) : e \in ThrownErrors} :
       handleExtend(thrown)

SpecForm == Init /\ [][NextForm]_vars

\* The steps of App from the form to the drafts the form is mounted with:
\* up to n submissions, their video calls, and the buttons that stage a
\* draft or reset the story.
DraftNext(n, errors) ==
  \/ \E hasKey \in BOOLEAN : checkApiKey(hasKey)
  \/ \E a \in attempts : GuardPassed(a)
  \/ \E a \in attempts : GuardRefused(a)
  \/ \E a \in attempts : VideoFulfilled(a, {1})
  \/ \E a \in attempts, e \in errors : VideoRejected(a, e)
  \/ StartsLeft(n) /\ handleSubmit
  \/ SubmitBlocked
  \/ handleNewVideo
  \/ handleAddScene
  \/ handleTryAgainFromError
  \/ \E thrown \in {None} \cup {Some(e) : e \in ThrownErrors} :
       handleExtend(thrown)

\* The mode selector in front of a form whose every mode-specific input is
\* uploaded and in which a prompt is typed and a line of dialogue written.
\* No speaker is chosen, so no speech call is made.
NextModes ==
  \/ DraftNext(MaxModeStarts, FormErrors)
  \/ \E mode \in Modes : handleSelectMode(mode)
  \/ setPrompt(<< "a" >>)
  \/ toggleDialogueInput
  \/ setDialogue(<< "a" >>)
  \/ \E target \in UploadTargets :
       UploadsLeft(MaxUploads) /\ handleFileChange(target)
  \/ \E target \in UploadTargets : FileRead(target, TRUE)
  \/ setIsLooping(TRUE)

SpecModes == Init /\ [][NextModes]_vars

\* The orchestrator with every way of invoking handleGenerate, in front of
\* a form used in each of its modes: a prompt is typed, a mode is chosen, a
\* start frame and reference images are uploaded.  No dialogue is written,
\* so no speech call is made.
NextSubmit ==
  \/ AppNext(MaxSubmitStarts, {1}, FormErrors)
  \/ StartsLeft(MaxSubmitStarts) /\ handleRetry
  \/ setPrompt(<< "a" >>)
  \/ \E mode \in Modes : handleSelectMode(mode)
  \/ \E target \in {"startFrame", "referenceImages"} :
       UploadsLeft(MaxUploads) /\ handleFileChange(target)
  \/ \E target \in {"startFrame", "referenceImages"} : FileRead(target, TRUE)

SpecSubmit == Init /\ [][NextSubmit]_vars

\* The settings selects in front of the mode selector: the user picks a
\* model, an aspect ratio and a resolution, chooses a mode, types a prompt
\* and uploads a start frame and reference images.
NextSettings ==
  \/ DraftNext(MaxSettingsStarts, FormErrors)
  \/ \E mode \in Modes : handleSelectMode(mode)
  \/ setPrompt(<< "a" >>)
  \/ \E m \in Models : setModel(m)
  \/ setAspectRatio("PORTRAIT")
  \/ \E r \in {"1080p", "4k"} : setResolution(r)
  \/ \E target \in {"startFrame", "referenceImages"} :
       UploadsLeft(MaxUploads) /\ handleFileChange(target)
  \/ \E target \in {"startFrame", "referenceImages"} : FileRead(target, TRUE)

SpecSettings == Init /\ [][NextSettings]_vars

\* Three attempts may be started, so that one can succeed and another fail
\* after the story was reset while both were in flight; the user types a
\* prompt and picks a model.
NextStale ==
  \/ AppNext(MaxStaleStarts, {1}, FormErrors)
  \/ StartsLeft(MaxStaleStarts) /\ handleRetry
  \/ setPrompt(<< "a" >>)
  \/ \E m \in Models : setModel(m)

SpecStale == Init /\ [][NextStale]_vars

\* The story is played back: up to three attempts, two of which may read the
\* same millisecond off the clock, and the buttons of the player.
NextPlayback ==
  \/ AppNext(MaxPlaybackStarts, {0, 1}, FormErrors)
  \/ StartsLeft(MaxPlaybackStarts) /\ handleRetry
  \/ setPrompt(<< "a" >>)
  \/ togglePlayStory
  \/ handleVideoEnded
  \/ \E i \in 1..Len(timeline) : selectSegment(i)

SpecPlayback == Init /\ [][NextPlayback]_vars

\* Reference images are picked while earlier picks are still being read,
\* removed again, and submitted.
NextReferences ==
  \/ DraftNext(MaxModeStarts, FormErrors)
  \/ \E mode \in {"TEXT_TO_VIDEO", "REFERENCES_TO_VIDEO"} :
       handleSelectMode(mode)
  \/ setPrompt(<< "a" >>)
  \/ UploadsLeft(MaxReferenceUploads) /\ handleFileChange("referenceImages")
  \/ \E ok \in BOOLEAN : FileRead("referenceImages", ok)
  \/ \E i \in 0..2 : removeReferenceImage(i)

SpecReferences == Init /\ [][NextReferences]_vars

\* Frames are extracted from videos of every duration up to MaxDuration tenths
\* of a second.
NextExtraction ==
  \/ \E duration \in 0..MaxDuration : extractFrameFromVideo(duration)
  \/ onloadeddata
  \/ onseeked
  \/ onerror

SpecExtraction == Init /\ [][NextExtraction]_vars

\* The browser ends the loading of every source, with loadeddata or with
\* error; nothing makes a seek complete.
SourceLoads ==
  \/ onloadeddata
  \/ extraction # None /\ ~Val(extraction).seeking /\ onerror

SpecExtractionFair == SpecExtraction /\ WF_vars(SourceLoads)

\* ----------------------------------------------------------------- claims
IsPrefix(s, t) == Len(s) <= Len(t) /\ SubSeq(t, 1, Len(s)) = s

\* A step in which a call of attempt a is rejected with one of errors.
Rejects(a, errors) ==
  \E e \in errors : VideoRejected(a, e) \/ SpeechRejected(a, e)

\* A step in which the join of some attempt is fulfilled.
SomeJoinFulfilled ==
  \E a \in attempts : VideoFulfilled(a, {1}) \/ SpeechFulfilled(a, {1})

\* C1: when a call of an attempt is rejected, whatever the other call has
\* done, the step ends the attempt with appState = ERROR, leaves the
\* timeline, the current-segment pointer and the retained video as they
\* were, and nothing of the attempt is in the timeline or retained.
C1_FailedAttemptDiscarded ==
  [][\A a \in attempts :
       Rejects(a, ServiceErrors) =>
         /\ appState' = "ERROR"
         /\ timeline' = timeline
         /\ currentSegmentId' = currentSegmentId
         /\ lastVideoBlob' = lastVideoBlob
         /\ lastVideoObject' = lastVideoObject
         /\ \A b \in attempts' : b.id # a.id
         /\ \A i \in 1..Len(timeline') : timeline'[i].videoUrl.att # a.id
         /\ lastVideoBlob' # Some(VideoResultOf(a.id).blob)]_vars

\* C1 witness: a second attempt, one that launched speech, has failed after
\* a first one succeeded; the story still holds the first segment.
C1_Witness ==
  /\ appState = "ERROR"
  /\ attempts = {}
  /\ nextAttempt = 3
  /\ Len(timeline) = 1
  /\ lastVideoBlob = Some(VideoResultOf(1).blob)
  /\ lastConfig # None
  /\ LaunchesSpeech(Val(lastConfig))

\* C2: the timeline is append-only: a step leaves it, appends one segment
\* to it, or is new story emptying it; a fulfilled join appends exactly one
\* segment; and a failed attempt, retry, add next scene, extend and try
\* again keep every entry in place.
C2_TimelineAppendOnly ==
  [][/\ \/ IsPrefix(timeline, timeline') /\ Len(timeline') <= Len(timeline) + 1
        \/ handleNewVideo /\ timeline' = <<>>
     /\ (SomeJoinFulfilled /\ timeline' # timeline) =>
          (Len(timeline') = Len(timeline) + 1 /\ IsPrefix(timeline, timeline'))
     /\ ( \/ handleAddScene
          \/ handleTryAgainFromError
          \/ handleRetry
          \/ \E thrown \in {None} \cup {Some(e) : e \in ThrownErrors} :
               handleExtend(thrown)
          \/ \E a \in attempts : Rejects(a, ServiceErrors) ) =>
          IsPrefix(timeline, timeline')]_vars

\* C3: every segment of the timeline was appended with the video call of
\* its attempt fulfilled and the speech call fulfilled or not made, and its
\* attempt is no longer in flight.
C3_NoPartialSegment ==
  \A i \in 1..Len(timeline) :
    /\ timeline[i].joined.video = "ok"
    /\ timeline[i].joined.speech \in {"ok", "none"}
    /\ (timeline[i].joined.speech = "ok") = LaunchesSpeech(
         [dialogue |-> timeline[i].dialogue, speaker |-> timeline[i].speaker])
    /\ \A a \in attempts : a.id # timeline[i].videoUrl.att

\* C3 witness: a segment whose attempt made both calls is in the timeline
\* and is the current segment.
C3_Witness ==
  /\ Len(timeline) = 1
  /\ timeline[1].joined = [video |-> "ok", speech |-> "ok"]
  /\ currentSegmentId = Some(timeline[1].id)

StateEdges ==
  { << "IDLE", "LOADING" >>, << "LOADING", "SUCCESS" >>,
    << "LOADING", "ERROR" >>, << "ERROR", "LOADING" >>,
    << "ERROR", "IDLE" >>, << "SUCCESS", "IDLE" >>,
    << "SUCCESS", "LOADING" >>, << "SUCCESS", "ERROR" >> }

\* C4: appState starts IDLE and changes along the listed edges only; SUCCESS
\* is entered from LOADING only, and a rejected call leads to ERROR from
\* LOADING only.
C4_StateMachineEdges ==
  /\ appState = "IDLE"
  /\ [][/\ appState' # appState => << appState, appState' >> \in StateEdges
        /\ (appState' = "SUCCESS" /\ appState # "SUCCESS") =>
             appState = "LOADING"
        /\ (\E a \in attempts : Rejects(a, ServiceErrors)) =>
             appState = "LOADING"]_vars

\* C5: when the key check of an invocation answers false or throws, the
\* step launches no call, opens the key dialog and leaves appState,
\* lastConfig, errorMessage, the draft, the timeline and the current-segment
\* pointer as they were.
C5_RefusedGuardChangesNothing ==
  [][\A a \in attempts :
       GuardRefused(a) =>
         /\ showApiKeyDialog'
         /\ \A b \in attempts' : b.stage = "run" => b \in attempts
         /\ \A b \in attempts' : b.id # a.id
         /\ UNCHANGED << appState, lastConfig, errorMessage,
                         initialFormValues, timeline, currentSegmentId >>]_vars

\* C5 witness: the first invocation was refused while the mount check has
\* not answered: the dialog is open and nothing else has changed.
C5_Witness ==
  /\ aistudio
  /\ startCheck = "pending"
  /\ showApiKeyDialog
  /\ nextAttempt = 2
  /\ attempts = {}
  /\ appState = "IDLE"
  /\ lastConfig = None

RawText(error) ==
  IF error.isError THEN error.message ELSE << "An unknown error occurred." >>
Occurs(text, fragments) == \E i \in DOMAIN text : text[i] \in fragments
ClassOf(error) ==
  IF Occurs(RawText(error), {"Requested entity was not found."})
  THEN "ModelNotFound"
  ELSE IF Occurs(RawText(error),
                 {"API_KEY_INVALID", "API key not valid", "403",
                  "permission denied", "Permission Denied"})
  THEN "CredentialInvalid"
  ELSE "Generic"

\* C7: a rejected call sets the message of the first matching class (the
\* not-found message even when a key pattern occurs too, otherwise the
\* key-invalid message, otherwise "Generation failed: " and the raw text)
\* and opens the key dialog exactly when the class is a credential one.
C7_ClassificationFirstMatch ==
  [][\A a \in attempts, e \in AllErrors :
       (VideoRejected(a, e) \/ SpeechRejected(a, e)) =>
         /\ errorMessage' =
              Some(CASE ClassOf(e) = "ModelNotFound" -> ModelNotFoundMessage
                     [] ClassOf(e) = "CredentialInvalid" -> KeyInvalidMessage
                     [] OTHER -> << "Generation failed: " >> \o RawText(e))
         /\ showApiKeyDialog' = (showApiKeyDialog \/ ClassOf(e) # "Generic")
         /\ (ClassOf(e) = "Generic" /\ ~showApiKeyDialog) => ~showApiKeyDialog'
    ]_vars

\* C7 witness: an attempt failed with the not-found text and the dialog is
\* open by that failure alone.
C7_Witness ==
  /\ appState = "ERROR"
  /\ errorMessage = Some(ModelNotFoundMessage)
  /\ showApiKeyDialog
  /\ startCheck \in {"pending", "skipped"}

\* C8: in ERROR the error message is set and not empty.
C8_ErrorCarriesMessage ==
  appState = "ERROR" => errorMessage # None /\ Val(errorMessage) # <<>>

\* C8 witness: ERROR reached by a failed extend preparation, with its
\* message.
C8_Witness ==
  /\ appState = "ERROR"
  /\ errorMessage # None
  /\ Val(errorMessage)[1] = "Failed to prepare video for extension: "

\* A text that is empty or all white space.
Blank(text) == \A i \in DOMAIN text : text[i] = " "

\* The required input of a mode is absent from these fields.
RequiredInputAbsent(mode, prompt, startFrame, referenceImages, handle) ==
  \/ mode = "TEXT_TO_VIDEO" /\ Blank(prompt)
  \/ mode = "FRAMES_TO_VIDEO" /\ startFrame = None
  \/ mode = "REFERENCES_TO_VIDEO" /\ (Blank(prompt) \/ referenceImages = <<>>)
  \/ mode = "EXTEND_VIDEO" /\ handle = None

\* C9: in every state of the mounted form, submission is disabled exactly
\* when the required input of the mode is absent: a prompt that is not blank
\* in text mode, a start frame in frames mode, such a prompt and a reference
\* image in reference mode, the handle of a generated video in extend mode.
C9_DisabledIffRequiredAbsent ==
  form # None =>
    LET f == Val(form)
    IN  isSubmitDisabled(f) <=>
          RequiredInputAbsent(f.generationMode, f.prompt, f.startFrame,
                              f.referenceImages, f.inputVideoObject)

\* C9 witness: in reference mode with a reference image and a prompt of
\* white space, submission is disabled.
C9_Witness ==
  /\ form # None
  /\ Val(form).generationMode = "REFERENCES_TO_VIDEO"
  /\ Len(Val(form).referenceImages) = 1
  /\ Val(form).prompt = << " " >>
  /\ isSubmitDisabled(Val(form))

\* C10: every invocation of handleGenerate, awaiting its key check or
\* running, carries parameters whose mode has its required input, and so
\* does the last config; a click on the disabled Generate button leaves
\* appState, the timeline, the last config, the error message and the draft
\* as they were.
C10_InvokedConfigsSubmittable ==
  /\ [](\A p \in {a.params : a \in attempts} \cup lastConfig
              \cup UNION {selectors[i].lastConfig : i \in DOMAIN selectors} :
           ~RequiredInputAbsent(p.mode, p.prompt, p.startFrame,
                                p.referenceImages, p.inputVideoObject))
  /\ [][SubmitBlocked =>
          UNCHANGED << appState, timeline, lastConfig, errorMessage,
                       initialFormValues, attempts >>]_vars

\* C10 witness: after a first video in frames mode, a second invocation
\* with the last config awaits its key check while the result is shown.
C10_Witness ==
  /\ appState = "SUCCESS"
  /\ Len(timeline) = 1
  /\ lastConfig # None
  /\ Val(lastConfig).mode = "FRAMES_TO_VIDEO"
  /\ \E a \in attempts :
       a.id = 2 /\ a.stage = "check" /\ a.params = Val(lastConfig)

\* C11: a mode selection leaves the form in the selected mode with start
\* frame, end frame, reference images, style image, input video and video
\* handle empty and looping off, and with the prompt, the dialogue and the
\* speaker it had.
C11_ModeSelectionClearsAssets ==
  [][\A mode \in Modes :
       handleSelectMode(mode) =>
         /\ form' # None
         /\ Val(form').generationMode = mode
         /\ Val(form').startFrame = None
         /\ Val(form').endFrame = None
         /\ Val(form').referenceImages = <<>>
         /\ Val(form').styleImage = None
         /\ Val(form').inputVideo = None
         /\ Val(form').inputVideoObject = None
         /\ ~Val(form').isLooping
         /\ Val(form').prompt = Val(form).prompt
         /\ Val(form').dialogue = Val(form).dialogue
         /\ Val(form').speaker = Val(form).speaker
         /\ Val(form').showDialogueInput = Val(form).showDialogueInput]_vars

\* C11 witness: the form mounted with the draft of extend, which holds the
\* input video and its handle, has been put into frames mode with a prompt
\* and a line of dialogue written: the video and the handle are gone.
C11_Witness ==
  /\ form # None
  /\ initialFormValues # None
  /\ Val(initialFormValues).mode = "EXTEND_VIDEO"
  /\ Val(initialFormValues).inputVideoObject # None
  /\ Val(form).generationMode = "FRAMES_TO_VIDEO"
  /\ Val(form).inputVideo = None
  /\ Val(form).inputVideoObject = None
  /\ Val(form).prompt = << "a" >>
  /\ Val(form).dialogue = << "a" >>

\* The settings a mode fixes.
FixedSettings(mode, model, aspectRatio, resolution) ==
  /\ mode = "REFERENCES_TO_VIDEO" =>
       model = "VEO" /\ aspectRatio = "LANDSCAPE" /\ resolution = "720p"
  /\ mode = "EXTEND_VIDEO" => resolution = "720p"

ModeInputsApart(mode, startFrame, endFrame, referenceImages, styleImage,
                inputVideo, inputVideoObject) ==
  /\ (startFrame # None \/ endFrame # None) => mode = "FRAMES_TO_VIDEO"
  /\ (referenceImages # <<>> \/ styleImage # None) =>
       mode = "REFERENCES_TO_VIDEO"
  /\ (inputVideo # None \/ inputVideoObject # None) => mode = "EXTEND_VIDEO"

\* C13: in the mounted form, in every config passed to handleGenerate and
\* in every staged draft, frames are held in frames mode only, reference
\* and style images in reference mode only, the input video and its handle
\* in extend mode only.
C13_ModeInputsNeverTogether ==
  /\ form # None =>
       LET f == Val(form)
       IN  ModeInputsApart(f.generationMode, f.startFrame, f.endFrame,
                           f.referenceImages, f.styleImage, f.inputVideo,
                           f.inputVideoObject)
  /\ \A p \in {a.params : a \in attempts} \cup lastConfig
              \cup initialFormValues :
       ModeInputsApart(p.mode, p.startFrame, p.endFrame, p.referenceImages,
                       p.styleImage, p.inputVideo, p.inputVideoObject)

\* C14: canExtend holds exactly when there is a last config and its
\* resolution is 720p: not without a last config, not for 1080p, not for 4k;
\* and the Extend button acts only then.
C14_CanExtendIff720p ==
  /\ [](canExtend <=> (\E p \in lastConfig : p.resolution = "720p"))
  /\ [](lastConfig = None => ~canExtend)
  /\ [](\A p \in lastConfig : p.resolution \in {"1080p", "4k"} => ~canExtend)
  /\ [][(\E thrown \in {None} \cup {Some(e) : e \in ThrownErrors} :
           handleExtend(thrown)) =>
          (lastConfig # None /\ Val(lastConfig).resolution = "720p")]_vars

\* C14 witness: a video made at 1080p is shown and cannot be extended.
C14_Witness ==
  /\ VideoResultShown
  /\ lastConfig # None
  /\ Val(lastConfig).resolution = "1080p"
  /\ ~canExtend

\* C15: a step of new story, from whatever state, ends with appState IDLE,
\* the timeline empty and the current-segment pointer, the error message,
\* the last config, the retained blob and handle and the draft all null.
C15_NewStoryClearsAll ==
  [][handleNewVideo =>
       /\ appState' = "IDLE"
       /\ timeline' = <<>>
       /\ currentSegmentId' = None
       /\ errorMessage' = None
       /\ lastConfig' = None
       /\ lastVideoBlob' = None
       /\ lastVideoObject' = None
       /\ initialFormValues' = None]_vars

\* C15 witness: the clock has been read, so a segment was appended, and the
\* story has been reset since: nothing of it is left.
C15_Witness ==
  /\ now > 0
  /\ appState = "IDLE"
  /\ timeline = <<>>
  /\ currentSegmentId = None
  /\ lastConfig = None
  /\ lastVideoBlob = None
  /\ lastVideoObject = None
  /\ attempts = {}

\* C16: add next scene with a last config stages the last config with
\* prompt and dialogue emptied, start frame, end frame, input video and
\* handle null, looping off and text mode in place of extend mode; reference
\* images, style image, model, aspect ratio, resolution and speaker are
\* those of the last config; appState becomes IDLE, the error is cleared.
C16_AddSceneDraft ==
  [][(handleAddScene /\ lastConfig # None) =>
       LET c == Val(lastConfig)
       IN  /\ initialFormValues' = Some(
                 [ prompt |-> <<>>, dialogue |-> Some(<<>>),
                   startFrame |-> None, endFrame |-> None,
                   inputVideo |-> None, inputVideoObject |-> None,
                   isLooping |-> FALSE,
                   mode |-> IF c.mode = "EXTEND_VIDEO" THEN "TEXT_TO_VIDEO"
                            ELSE c.mode,
                   referenceImages |-> c.referenceImages,
                   styleImage |-> c.styleImage, model |-> c.model,
                   aspectRatio |-> c.aspectRatio,
                   resolution |-> c.resolution, speaker |-> c.speaker ])
           /\ appState' = "IDLE"
           /\ errorMessage' = None]_vars

\* C16 witness: after an extension, the draft of add next scene is in text
\* mode.
C16_Witness ==
  /\ appState = "IDLE"
  /\ Len(timeline) = 2
  /\ lastConfig # None
  /\ Val(lastConfig).mode = "EXTEND_VIDEO"
  /\ initialFormValues # None
  /\ Val(initialFormValues).mode = "TEXT_TO_VIDEO"
  /\ Val(initialFormValues).inputVideoObject = None

\* C17: extend with a last config, a retained blob and a retained handle
\* stages a draft in extend mode at 720p that wraps the blob as input video
\* and carries the handle, with prompt and dialogue empty, no speaker, no
\* frames, no reference images, no style image, looping off, and the model
\* and aspect ratio of the last config; appState becomes IDLE.
C17_ExtendDraft ==
  [][(handleExtend(None) /\ lastConfig # None /\ lastVideoBlob # None
        /\ lastVideoObject # None) =>
       LET c == Val(lastConfig)
       IN  /\ initialFormValues' = Some(
                 [ mode |-> "EXTEND_VIDEO", resolution |-> "720p",
                   inputVideo |->
                     Some([file |-> [name |-> "last_video.mp4",
                                     content |-> Val(lastVideoBlob)],
                           base64 |-> ""]),
                   inputVideoObject |-> lastVideoObject,
                   prompt |-> <<>>, dialogue |-> Some(<<>>),
                   speaker |-> "NONE", startFrame |-> None,
                   endFrame |-> None, referenceImages |-> <<>>,
                   styleImage |-> None, isLooping |-> FALSE,
                   model |-> c.model, aspectRatio |-> c.aspectRatio ])
           /\ appState' = "IDLE"]_vars

\* C17 witness: a portrait video made from reference images or a start
\* frame is being extended: the draft keeps portrait or the model and drops
\* the images.
C17_Witness ==
  /\ appState = "IDLE"
  /\ lastConfig # None
  /\ Val(lastConfig).mode \in {"FRAMES_TO_VIDEO", "REFERENCES_TO_VIDEO"}
  /\ initialFormValues # None
  /\ Val(initialFormValues).mode = "EXTEND_VIDEO"
  /\ Val(initialFormValues).model = Val(lastConfig).model
  /\ Val(initialFormValues).inputVideoObject = lastVideoObject
  /\ Val(initialFormValues).startFrame = None
  /\ Val(initialFormValues).referenceImages = <<>>

\* C18: try again from the error state ends with appState IDLE, the draft
\* equal to the last config and the error cleared, and leaves the
\* timeline, the current-segment pointer, the last config and the retained
\* blob and handle as they were.
C18_TryAgainKeepsStory ==
  [][(handleTryAgainFromError /\ appState = "ERROR") =>
       /\ appState' = "IDLE"
       /\ initialFormValues' = lastConfig
       /\ errorMessage' = None
       /\ UNCHANGED << timeline, currentSegmentId, lastConfig,
                       lastVideoBlob, lastVideoObject >>]_vars

\* C19: retry with a last config starts one invocation of generate whose
\* params are the last config, and the last config is the config of the
\* most recently started attempt; retry without a last config changes
\* nothing.
C19_RetryUsesLastConfig ==
  [][handleRetry =>
       IF lastConfig = None
       THEN UNCHANGED vars
       ELSE /\ \E a \in attempts' :
                 /\ attempts' = attempts \cup {a}
                 /\ a.id = nextAttempt
                 /\ a.params = Val(lastConfig)
            /\ \A a \in attempts :
                 a.id = nextAttempt - 1 => a.params = Val(lastConfig)]_vars

\* C20: on a timeline of n >= 2 segments, once playback has started and k
\* scene-ended signals have arrived with nothing in between, the scenes
\* that ended are the segments at indices 0 .. k-1 in that order; before
\* the n-th signal the story is playing and the segment at index k is on
\* view, after the n-th playback has exited and the segment on view is the
\* most recent one, at index n-1.
C20_PlaybackInOrder ==
  \A p \in player : \A played \in p.played :
    LET k == Len(played)
        n == Len(timeline)
    IN  n >= 2 =>
          /\ k <= n
          /\ played = SubSeq(timeline, 1, k)
          /\ IF k < n
             THEN p.isPlayingStory /\ p.viewingSegment = timeline[k + 1]
             ELSE ~p.isPlayingStory /\ p.viewingSegment = timeline[n]

\* C21: a scene-ended signal while the story plays at index i moves the
\* index to i+1 and keeps the story playing when i is below the last
\* index; at the last index it ends playback and puts the most recent
\* segment of the timeline on view; a signal while no story plays changes
\* nothing.
C21_SceneEndedStep ==
  [][handleVideoEnded =>
       LET p == Val(player)
           q == Val(player')
           last == Len(timeline) - 1
       IN  IF ~p.isPlayingStory
           THEN UNCHANGED vars
           ELSE IF p.storyIndex < last
           THEN q.storyIndex = p.storyIndex + 1 /\ q.isPlayingStory
           ELSE /\ ~q.isPlayingStory
                /\ q.viewingSegment = timeline[Len(timeline)]]_vars

\* C22: the Stop Story button, at whatever playback index, ends playback
\* and puts the most recent segment of the timeline on view.
C22_StopShowsMostRecent ==
  [][(togglePlayStory /\ Val(player).isPlayingStory) =>
       /\ ~Val(player').isPlayingStory
       /\ Val(player').viewingSegment = timeline[Len(timeline)]]_vars

\* C23: a click on a timeline card puts that segment on view when no story
\* plays, and changes neither the segment on view nor the playback index nor
\* the playing flag while a story plays.
C23_SelectSegment ==
  [][\A i \in 1..Len(timeline) :
       selectSegment(i) =>
         LET p == Val(player)
             q == Val(player')
         IN  IF ~p.isPlayingStory
             THEN q.viewingSegment = timeline[i]
             ELSE /\ q.viewingSegment = p.viewingSegment
                  /\ q.storyIndex = p.storyIndex
                  /\ q.isPlayingStory = p.isPlayingStory]_vars

\* C23 witness: no story plays and an earlier segment than the current one
\* is on view.
C23_Witness ==
  /\ player # None
  /\ ~Val(player).isPlayingStory
  /\ Len(timeline) = 3
  /\ Val(player).viewingSegment = timeline[2]
  /\ currentSegment = timeline[3]

\* C24: no two segments of the timeline have the same id, and ids grow
\* strictly in the order of appending.
C24_IdsStrictlyIncreasing ==
  \A i, j \in 1..Len(timeline) : i < j => timeline[i].id < timeline[j].id

SpeechWanted(dialogue, speaker) ==
  dialogue # None /\ Val(dialogue) # <<>> /\ speaker # "NONE"

\* C25: an attempt past the guard has a speech call exactly when its config
\* has a non-empty dialogue text and a speaker other than NONE; a segment
\* made from any other config was joined without a speech call and has no
\* audio track.
C25_SpeechIffDialogueAndSpeaker ==
  /\ \A a \in attempts :
       a.stage = "run" =>
         (a.speech # "none" <=> SpeechWanted(a.params.dialogue, a.params.speaker))
  /\ \A i \in 1..Len(timeline) :
       LET segment == timeline[i]
       IN  IF SpeechWanted(segment.dialogue, segment.speaker)
           THEN segment.joined.speech = "ok"
           ELSE segment.joined.speech = "none" /\ segment.audioUrl = None

\* C25 witness: a segment made with a dialogue text but no speaker has no
\* audio track, while a speech call of another attempt is pending.
C25_Witness ==
  /\ \E i \in 1..Len(timeline) :
       /\ timeline[i].dialogue = Some(<< "a" >>)
       /\ timeline[i].speaker = "NONE"
       /\ timeline[i].audioUrl = None
  /\ \E a \in attempts : a.stage = "run" /\ a.speech = "pending"

\* C26: a step in which a file read or a frame extraction of an upload
\* fails, or in which wrapping the retained video for extension throws,
\* ends with appState ERROR and a message that begins with the
\* failed-to-prepare text.
C26_LocalFailureShowsError ==
  [][(\/ \E target \in UploadTargets : FileRead(target, FALSE)
      \/ \E e \in ThrownErrors :
           /\ handleExtend(Some(e))
           /\ lastConfig # None /\ lastVideoBlob # None
           /\ lastVideoObject # None)
       => /\ appState' = "ERROR"
          /\ errorMessage' # None
          /\ Val(errorMessage') # <<>>
          /\ Head(Val(errorMessage')) =
               "Failed to prepare video for extension: "]_vars

\* C27: for every duration D, in tenths of a second, the seek target is
\* D - 1 when D > 5 and 0 otherwise; D = 5 gives 0, D = 100 gives 99 and
\* D = 3 gives 0; the target is never negative and never beyond D.
C27_SeekTarget ==
  \A e \in extraction :
    e.seeking =>
      /\ e.currentTime = IF e.duration > 5 THEN e.duration - 1 ELSE 0
      /\ e.duration = 5 => e.currentTime = 0
      /\ e.duration = 100 => e.currentTime = 99
      /\ e.duration = 3 => e.currentTime = 0
      /\ e.currentTime >= 0
      /\ e.currentTime <= e.duration

\* C27 witness: the seek of a video of ten seconds is under way.
C27_Witness ==
  /\ extraction # None
  /\ Val(extraction).seeking
  /\ Val(extraction).duration = 100
  /\ Val(extraction).currentTime = 99

\* C28: the step in which an invocation of generate gets past the key
\* check, the check answering true or there being no key provider, ends
\* with appState LOADING, the config of the invocation recorded as last
\* config, the error message and the draft null, and the calls of the
\* invocation launched and not yet settled.
C28_PassingGuardEntersLoading ==
  [][\A params \in {a.params : a \in attempts}
                  \cup {SubmitParams(f) : f \in form} \cup lastConfig :
       (\/ \E a \in attempts : a.params = params /\ GuardPassed(a)
        \/ ~aistudio /\ Invoke(params))
       => /\ appState' = "LOADING"
          /\ lastConfig' = Some(params)
          /\ errorMessage' = None
          /\ initialFormValues' = None
          /\ \E b \in attempts' :
               /\ b.params = params
               /\ b.stage = "run"
               /\ b.video = "pending"
               /\ b.speech \in {"pending", "none"}]_vars

\* C28 witness: the second scene's invocation has just passed the key
\* check.
C28_Witness ==
  /\ appState = "LOADING"
  /\ Len(timeline) = 1
  /\ errorMessage = None
  /\ initialFormValues = None
  /\ \E a \in attempts :
       /\ a.guard = "passed"
       /\ a.video = "pending"
       /\ a.speech = "pending"
       /\ lastConfig = Some(a.params)

\* The step ends attempt a by appending a segment.
Commits(a) ==
  /\ a \in attempts
  /\ a \notin attempts'
  /\ \A b \in attempts' : b.id # a.id
  /\ Len(timeline') = Len(timeline) + 1

\* What C29 says of the segment, the retained video and appState.
SegmentOfAttempt(a) ==
  LET segment == timeline'[Len(timeline')]
  IN  /\ segment.prompt = a.params.prompt
      /\ segment.dialogue = a.params.dialogue
      /\ segment.speaker = a.params.speaker
      /\ segment.videoUrl.att = a.id
      /\ lastVideoBlob' = Some([blob |-> "video", att |-> a.id])
      /\ lastVideoObject' = Some([handle |-> "video", att |-> a.id])
      /\ appState' = "SUCCESS"

\* C29: when the join of an attempt succeeds, the appended segment has the
\* prompt, dialogue and speaker of that attempt's config and that attempt's
\* video, it is the current segment, the attempt's blob and handle are the
\* retained ones and appState is SUCCESS.
C29_CommitOfOwnConfig ==
  [][\A a \in attempts :
       Commits(a) =>
         /\ SegmentOfAttempt(a)
         /\ currentSegmentId' # None
         /\ FindSegment(timeline', Val(currentSegmentId'))
              = timeline'[Len(timeline')]]_vars

\* C30: when wrapping the retained blob throws during extend, no call is
\* launched, no draft is staged, appState becomes ERROR with a message that
\* begins with the failed-to-prepare text, and the timeline, the last
\* config and the retained blob and handle stay as they were; when the last
\* config, the blob or the handle is missing, extend changes nothing.
C30_ExtendFailsLocally ==
  [][/\ \A e \in ThrownErrors :
          (/\ handleExtend(Some(e))
           /\ lastConfig # None /\ lastVideoBlob # None
           /\ lastVideoObject # None)
          => /\ UNCHANGED << attempts, nextAttempt, initialFormValues >>
             /\ appState' = "ERROR"
             /\ errorMessage' # None
             /\ Head(Val(errorMessage'))
                  = "Failed to prepare video for extension: "
             /\ UNCHANGED << timeline, lastConfig, lastVideoBlob,
                             lastVideoObject >>
     /\ (/\ handleExtend(None)
         /\ (lastConfig = None \/ lastVideoBlob = None
               \/ lastVideoObject = None))
        => UNCHANGED vars]_vars

\* C30 witness: the extension of the second scene failed locally; both
\* scenes, the last config and the retained video are still there and no
\* draft is staged.
C30_Witness ==
  /\ appState = "ERROR"
  /\ errorMessage # None
  /\ Head(Val(errorMessage)) = "Failed to prepare video for extension: "
  /\ Len(timeline) = 2
  /\ lastConfig # None
  /\ lastVideoBlob # None
  /\ lastVideoObject # None
  /\ initialFormValues = None
  /\ attempts = {}

\* C32: the form, every config handed to generate and the last config hold
\* at most three reference images.
C32_AtMostThreeReferences ==
  /\ \A f \in form : Len(f.referenceImages) <= 3
  /\ \A a \in attempts : Len(a.params.referenceImages) <= 3
  /\ \A c \in lastConfig : Len(c.referenceImages) <= 3

\* C33: in the form, in every config handed to generate and in the last
\* config, looping comes with a start frame and without an end frame.
C33_LoopingNeedsStartFrameOnly ==
  /\ \A f \in form :
       f.isLooping => f.startFrame # None /\ f.endFrame = None
  /\ \A a \in attempts :
       a.params.isLooping =>
         a.params.startFrame # None /\ a.params.endFrame = None
  /\ \A c \in lastConfig :
       c.isLooping => c.startFrame # None /\ c.endFrame = None

\* C31: every frame extraction that was started settles in the end, by
\* resolving or by rejecting, also when the seek never completes.
C31_ExtractionSettles == (extraction # None) ~> (extraction = None)

\* C34: whenever appState is SUCCESS the current-segment pointer is set and
\* the segment it finds is the last one of the timeline, so the fallback
\* for missing data is not shown.
C34_SuccessShowsLastSegment ==
  appState = "SUCCESS" =>
    /\ currentSegmentId # None
    /\ HasCurrentSegment
    /\ currentSegment = timeline[Len(timeline)]

\* C35: whenever appState is SUCCESS there is a last config, and the
\* retained blob and handle and the current segment come from one attempt,
\* whose prompt, dialogue and speaker are those of the last config.
C35_SuccessHasItsConfig ==
  appState = "SUCCESS" =>
    /\ lastConfig # None
    /\ lastVideoBlob # None
    /\ lastVideoObject # None
    /\ HasCurrentSegment
    /\ Val(lastVideoBlob).att = currentSegment.videoUrl.att
    /\ Val(lastVideoObject).att = currentSegment.videoUrl.att
    /\ currentSegment.prompt = Val(lastConfig).prompt
    /\ currentSegment.dialogue = Val(lastConfig).dialogue
    /\ currentSegment.speaker = Val(lastConfig).speaker

\* C36: generate is not invoked while another invocation has passed its key
\* check and has not yet completed.
C36_SingleFlight ==
  [][nextAttempt' > nextAttempt =>
       \A a \in attempts : a.stage # "run"]_vars

\* C37: with a key check and services that answer in the end, appState
\* LOADING always leads to SUCCESS or ERROR.
C37_LoadingEnds ==
  (appState = "LOADING") ~> (appState \in {"SUCCESS", "ERROR"})

\* C37 witness: appState is LOADING while both calls of an attempt are
\* pending.
C37_Witness ==
  /\ appState = "LOADING"
  /\ \E a \in attempts :
       a.stage = "run" /\ a.video = "pending" /\ a.speech = "pending"
  /\ timeline = <<>>

\* C38: while a story plays the timeline has at least two segments, the
\* playback index is at least 0 and below the length of the timeline, and
\* the segment on view is the timeline entry at that index.
C38_PlaybackIndexInRange ==
  \A p \in player :
    p.isPlayingStory =>
      /\ Len(timeline) >= 2
      /\ 0 <= p.storyIndex
      /\ p.storyIndex < Len(timeline)
      /\ p.viewingSegment = timeline[p.storyIndex + 1]

\* C38 witness: the story plays its second scene and the timeline has grown
\* to three segments since playback started.
C38_Witness ==
  /\ player # None
  /\ Val(player).isPlayingStory
  /\ Val(player).played = None
  /\ Val(player).storyIndex = 1
  /\ Len(timeline) = 3

\* C39: a step in which the credential selector returns starts an attempt
\* only when, at that moment, ApplicationState is Error and a last config
\* exists, and the attempt it starts carries that last config.
C39_RetryOnlyFromError ==
  [][(Len(selectors') < Len(selectors) /\ nextAttempt' > nextAttempt)
       => /\ appState = "ERROR"
          /\ lastConfig # None
          /\ \E a \in attempts' \ attempts : a.params = Val(lastConfig)]_vars

\* C40: while the timeline is empty and no last config is recorded, as new
\* story leaves them, no step appends a segment: a segment is appended only
\* by an invocation that has recorded its config since the reset.
C40_NoAppendAfterReset ==
  [][(timeline = <<>> /\ lastConfig = None) => timeline' = <<>>]_vars

====
